---- MODULE Spec2Model ----
(***************************************************************************)
(* ResourceVersionService of amplication                                   *)
(* (src/packages/amplication-git-utils/src/git/github.service.ts, lines    *)
(* 325-563): the store of resource versions, create / validateVersion,     *)
(* getPreviousVersion and compareResourceVersions with its block-version   *)
(* diff.  Every await of the service is a point where other calls may run; *)
(* the code between two awaits is one atomic step (the diff, which touches *)
(* only the locals of its call, is a step of its own after the last read). *)
(***************************************************************************)
EXTENDS Integers, Sequences, FiniteSets, TLC

(* ------------------------------------------------------------------ *)
(* Bounds of the model                                                  *)
(* ------------------------------------------------------------------ *)

\* longest block-version collection handed to the diff in SpecDiff
MaxLen == 2

\* most resource versions the clients of Spec create
MaxResourceVersions == 2

\* most service calls started in one behaviour of Spec
MaxCalls == 3

\* most resource versions in a store handed to getPreviousVersion in SpecPrev
MaxStored == 3

(* ------------------------------------------------------------------ *)
(* Data                                                                 *)
(* ------------------------------------------------------------------ *)

\* block.id values
BlockIds == {"a", "b", "c"}

\* BlockVersion.versionNumber values
VersionNumbers == {1, 2}

\* a BlockVersion, reduced to what the diff reads: block.id and versionNumber
BlockVersion(b, n) == [block |-> [id |-> b], versionNumber |-> n]

BlockVersions == {BlockVersion(b, n) : b \in BlockIds, n \in VersionNumbers}

\* every collection of at most n block versions, block ids repeated or not
BlockVersionLists(n) == UNION {[1..k -> BlockVersions] : k \in 0..n}

\* each block.id occurs at most once in the collection
UniqueBlockIds(list) ==
    \A i, j \in 1..Len(list) : list[i].block.id = list[j].block.id => i = j

(* ------------------------------------------------------------------ *)
(* The block-version diff of compareResourceVersions (lines 524-561)    *)
(* ------------------------------------------------------------------ *)

\* least element of a non-empty set of indices
MinIndex(S) == CHOOSE i \in S : \A j \in S : i <= j

\* matchesSourceBlock with the block versions compared whole, not their blocks
matchesSourceBlockVersion(blockVersion, sourceBlockVersion) ==
    blockVersion = sourceBlockVersion

\* line 530: (blockVersion) => blockVersion.block.id === sourceBlockVersion.block.id
matchesSourceBlock(blockVersion, sourceBlockVersion) ==
    blockVersion.block.id = sourceBlockVersion.block.id

\* matchesTargetBlock with the block versions compared whole, not their blocks
matchesTargetBlockVersion(blockVersion, targetBlockVersion) ==
    blockVersion = targetBlockVersion

\* line 549: (blockVersion) => blockVersion.block.id === targetBlockVersion.block.id
matchesTargetBlock(blockVersion, targetBlockVersion) ==
    blockVersion.block.id = targetBlockVersion.block.id

\* lines 529-531: targetBlockVersions.find(...): the index of the first target
\* item the predicate accepts, 0 when find returns undefined
findTargetBlockVersion(targetBlockVersions, sourceBlockVersion) ==
    LET hits == {j \in 1..Len(targetBlockVersions) :
                    matchesSourceBlock(targetBlockVersions[j], sourceBlockVersion)}
    IN  IF hits = {} THEN 0 ELSE MinIndex(hits)

\* lines 548-550: sourceBlockVersions.find(...), 0 when find returns undefined
findSourceBlockVersion(sourceBlockVersions, targetBlockVersion) ==
    LET hits == {j \in 1..Len(sourceBlockVersions) :
                    matchesTargetBlock(sourceBlockVersions[j], targetBlockVersion)}
    IN  IF hits = {} THEN 0 ELSE MinIndex(hits)

\* versionNumberDiffers with the two objects compared, which are never the
\* same object
versionObjectDiffers(sourceBlockVersion, targetBlockVersion) == TRUE

\* lines 534-536: sourceBlockVersion.versionNumber !== targetBlockVersion.versionNumber
versionNumberDiffers(sourceBlockVersion, targetBlockVersion) ==
    sourceBlockVersion.versionNumber # targetBlockVersion.versionNumber

\* pushUpdated with the two halves of the pair exchanged
pushUpdatedSwapped(updated, sourceBlockVersion, targetBlockVersion) ==
    Append(updated, [sourceBlockVersion |-> targetBlockVersion,
                     targetBlockVersion |-> sourceBlockVersion])

\* lines 537-540: updated.push({ sourceBlockVersion, targetBlockVersion })
pushUpdated(updated, sourceBlockVersion, targetBlockVersion) ==
    Append(updated, [sourceBlockVersion |-> sourceBlockVersion,
                     targetBlockVersion |-> targetBlockVersion])

\* line 543: deleted.push(sourceBlockVersion)
pushDeleted(deleted, sourceBlockVersion) == Append(deleted, sourceBlockVersion)

\* pushCreated with unshift for push
unshiftCreated(created, targetBlockVersion) == <<targetBlockVersion>> \o created

\* line 553: created.push(targetBlockVersion)
pushCreated(created, targetBlockVersion) == Append(created, targetBlockVersion)

\* lines 524-526: the three result arrays, new and empty in every call
newArrays == [updated |-> <<>>, deleted |-> <<>>, created |-> <<>>]

\* lines 528-545: for (const sourceBlockVersion of sourceBlockVersions), from
\* the i-th source item on, with the arrays as built so far
RECURSIVE sourceLoop(_, _, _, _)
sourceLoop(i, sourceBlockVersions, targetBlockVersions, arrays) ==
    IF i > Len(sourceBlockVersions) THEN arrays
    ELSE LET s == sourceBlockVersions[i]
             j == findTargetBlockVersion(targetBlockVersions, s)
         IN  IF j # 0
             THEN IF versionNumberDiffers(s, targetBlockVersions[j])
                  THEN sourceLoop(i + 1, sourceBlockVersions, targetBlockVersions,
                         [arrays EXCEPT !.updated =
                             pushUpdated(@, s, targetBlockVersions[j])])
                  ELSE sourceLoop(i + 1, sourceBlockVersions, targetBlockVersions,
                         arrays)
             ELSE sourceLoop(i + 1, sourceBlockVersions, targetBlockVersions,
                    [arrays EXCEPT !.deleted = pushDeleted(@, s)])

\* lines 547-555: for (const targetBlockVersion of targetBlockVersions)
RECURSIVE targetLoop(_, _, _, _)
targetLoop(i, sourceBlockVersions, targetBlockVersions, arrays) ==
    IF i > Len(targetBlockVersions) THEN arrays
    ELSE LET t == targetBlockVersions[i]
             j == findSourceBlockVersion(sourceBlockVersions, t)
         IN  IF j = 0
             THEN targetLoop(i + 1, sourceBlockVersions, targetBlockVersions,
                    [arrays EXCEPT !.created = pushCreated(@, t)])
             ELSE targetLoop(i + 1, sourceBlockVersions, targetBlockVersions,
                    arrays)

\* diffFrom with an early return of the untouched arrays for an empty source
diffFromSkippingEmptySource(arrays, sourceBlockVersions, targetBlockVersions) ==
    IF sourceBlockVersions = <<>>
    THEN [updatedBlocks |-> arrays.updated,
          createdBlocks |-> arrays.created,
          deletedBlocks |-> arrays.deleted]
    ELSE LET afterSource == sourceLoop(1, sourceBlockVersions,
                                       targetBlockVersions, arrays)
             afterTarget == targetLoop(1, sourceBlockVersions,
                                       targetBlockVersions, afterSource)
         IN  [updatedBlocks |-> afterTarget.updated,
              createdBlocks |-> afterTarget.created,
              deletedBlocks |-> afterTarget.deleted]

\* lines 524-561: both loops over arrays that start as `arrays`, and the
\* ResourceVersionsDiff returned
diffFrom(arrays, sourceBlockVersions, targetBlockVersions) ==
    LET afterSource == sourceLoop(1, sourceBlockVersions, targetBlockVersions,
                                  arrays)
        afterTarget == targetLoop(1, sourceBlockVersions, targetBlockVersions,
                                  afterSource)
    IN  [updatedBlocks |-> afterTarget.updated,
         createdBlocks |-> afterTarget.created,
         deletedBlocks |-> afterTarget.deleted]

\* the value of a ResourceVersionsDiff field before any diff was computed
NoDiff == [updatedBlocks |-> <<>>, createdBlocks |-> <<>>, deletedBlocks |-> <<>>]

(* ------------------------------------------------------------------ *)
(* semver (line 318: import { sort, valid } from "semver")              *)
(* ------------------------------------------------------------------ *)

\* version strings the service is called with: three plain versions whose
\* numeric order differs from their order as text, one with the leading "v"
\* that semver accepts and ignores, one that is no semver version, and the
\* empty string
ValidVersions == {"1.2.0", "1.10.0", "2.0.0", "v1.2.0"}
InvalidVersions == {"1.2", ""}

\* the valid version strings the concurrent clients of Spec use
CallVersions == {"1.2.0", "1.10.0"}

\* semver's parse: major, minor and patch of a valid version
SemVer(version) ==
    CASE version = "1.2.0"  -> <<1, 2, 0>>
      [] version = "v1.2.0" -> <<1, 2, 0>>
      [] version = "1.10.0" -> <<1, 10, 0>>
      [] version = "2.0.0"  -> <<2, 0, 0>>

\* line 401: valid(version) is non-null
valid(version) == version \in ValidVersions

\* semver's compare: -1, 0 or 1 by major, then minor, then patch
compare(a, b) ==
    LET x == SemVer(a)
        y == SemVer(b)
    IN  IF x[1] # y[1] THEN (IF x[1] < y[1] THEN -1 ELSE 1)
        ELSE IF x[2] # y[2] THEN (IF x[2] < y[2] THEN -1 ELSE 1)
        ELSE IF x[3] # y[3] THEN (IF x[3] < y[3] THEN -1 ELSE 1)
        ELSE 0

\* one step of the stable sort: v goes after every element that is not
\* greater than it
insertSorted(sorted, v) ==
    LET after == {i \in 1..Len(sorted) : compare(sorted[i], v) <= 0}
        k == IF after = {} THEN 0
             ELSE CHOOSE i \in after : \A j \in after : j <= i
    IN  SubSeq(sorted, 1, k) \o <<v>> \o SubSeq(sorted, k + 1, Len(sorted))

\* line 459: sort(list): ascending by compare, equal versions in list order
RECURSIVE sortFrom(_, _, _)
sortFrom(i, list, sorted) ==
    IF i > Len(list) THEN sorted
    ELSE sortFrom(i + 1, list, insertSorted(sorted, list[i]))

sort(list) == sortFrom(1, list, <<>>)

\* line 461: sortedVersions.indexOf(version), counted from 1: 0 is the
\* code's -1 and 1 is the code's 0
indexOf(list, x) ==
    LET hits == {i \in 1..Len(list) : list[i] = x}
    IN  IF hits = {} THEN 0 ELSE MinIndex(hits)

(* ------------------------------------------------------------------ *)
(* State                                                                *)
(* ------------------------------------------------------------------ *)

\* resourceVersions: the resourceVersion table behind prisma.resourceVersion,
\*   in the order in which the inserts resolved; a row's id is its position.
\*   A row carries the createdAt its create took with new Date() (line 373)
\*   when it issued the insert, so the createdAt order of two rows may be
\*   the opposite of their order in the table, and two rows may carry the
\*   same createdAt.
\* calls: for every client of the service, the call it has in flight: the
\*   method, the await it is suspended at and the call's local variables.
\* ncalls: how many calls were started.
\* now: the millisecond the last new Date() of line 373 returned, 0 before
\*   the first one.
VARIABLES resourceVersions, calls, ncalls, now

vars == <<resourceVersions, calls, ncalls, now>>

\* clients that call the service concurrently
Callers == {"c1", "c2"}

\* resources: two service templates and one resource of another type
TemplateIds == {"r1", "r2"}
ResourceIds == TemplateIds \cup {"svc"}

\* line 352: resource.resourceType of the resource resourceService.findOne returns
resourceType(resourceId) ==
    IF resourceId \in TemplateIds THEN "ServiceTemplate" ELSE "Service"

\* what blockService.getLatestVersions (line 363) may return for a resource:
\* its blocks at two moments of its history
LatestBlockVersionsInputs ==
    { <<BlockVersion("a", 1), BlockVersion("b", 1)>>,
      <<BlockVersion("a", 2), BlockVersion("c", 1)>> }

\* the call record of a client with no call in flight
Idle ==
    [op |-> "idle", pc |-> "idle", resourceId |-> "", version |-> "",
     sourceVersion |-> "", sourceResourceVersion |-> 0,
     targetResourceVersion |-> 0, sourceBlockVersions |-> <<>>,
     targetBlockVersions |-> <<>>, latestBlockVersions |-> <<>>,
     previousVersion |-> 0, createdAt |-> 0,
     returned |-> 0, diff |-> NoDiff, error |-> ""]

\* calls that have not yet returned or thrown
InFlight(op) ==
    {c \in Callers : calls[c].op = op /\ calls[c].pc \notin {"done", "failed"}}

(* ------------------------------------------------------------------ *)
(* Queries                                                              *)
(* ------------------------------------------------------------------ *)

\* lines 405-410, 487-492, 506-511: prisma.resourceVersion.findFirst({ where:
\* { resourceId, version } }): the ids it may return, {0} for null.  The
\* query has no orderBy, so any matching row may be the first.
findFirst(resourceId, version) ==
    LET rows == {i \in 1..Len(resourceVersions) :
                    /\ resourceVersions[i].resourceId = resourceId
                    /\ resourceVersions[i].version = version}
    IN  IF rows = {} THEN {0} ELSE rows

\* the where clause of lines 437-439 and 451-453
ofResource(resourceId, row) == row.resourceId = resourceId

\* orderBy: { createdAt: "desc" } (lines 440-442, 454-456): the orders in
\* which the rows `ids` may come back, a later createdAt first; the query
\* names no second key, so rows of one createdAt come in any order
createdAtDesc(ids) ==
    {order \in [1..Cardinality(ids) -> ids] :
        /\ \A i, j \in 1..Cardinality(ids) : order[i] = order[j] => i = j
        /\ \A i, j \in 1..Cardinality(ids) :
              i < j => resourceVersions[order[i]].createdAt
                          >= resourceVersions[order[j]].createdAt}

\* lines 450-457: prisma.resourceVersion.findMany({ where: { resourceId },
\* orderBy: { createdAt: "desc" } }): the lists of rows it may return
findMany(resourceId) ==
    LET ids == {i \in 1..Len(resourceVersions) :
                   ofResource(resourceId, resourceVersions[i])}
    IN  {[k \in 1..Cardinality(ids) |-> resourceVersions[order[k]]] :
            order \in createdAtDesc(ids)}

\* lines 435-444: getLatest(resourceId): findFirst({ where: { resourceId },
\* orderBy: { createdAt: "desc" } }): the ids it may return, {0} for null
getLatest(resourceId) ==
    LET rows == findMany(resourceId)
    IN  {IF versions = <<>> THEN 0 ELSE versions[1].id : versions \in rows}

\* line 459: versions.map((v) => v.version)
versionsOf(rows) == [i \in 1..Len(rows) |-> rows[i].version]

\* previousOf with the lowest version returned for the one sorted just before
previousOfLowest(versions, sortedVersions, index) ==
    IF index = 0 THEN 0
    ELSE IF index = 1 THEN 0
    ELSE LET hits == {i \in 1..Len(versions) :
                         versions[i].version = sortedVersions[1]}
         IN  versions[MinIndex(hits)].id

\* lines 463-473: the row to return for the index of `version` in
\* sortedVersions: 0 (null) when it is not found or is the first, else the
\* first row of versions that carries the version sorted just before it
previousOf(versions, sortedVersions, index) ==
    IF index = 0 THEN 0
    ELSE IF index = 1 THEN 0
    ELSE LET hits == {i \in 1..Len(versions) :
                         versions[i].version = sortedVersions[index - 1]}
         IN  versions[MinIndex(hits)].id

\* lines 459-473: what getPreviousVersion returns for the rows findMany
\* gave it: the id of a resource version, 0 for null
previousIn(versions, version) ==
    LET sortedVersions == sort(versionsOf(versions))
        index == indexOf(sortedVersions, version)
    IN  previousOf(versions, sortedVersions, index)

\* lines 446-474: getPreviousVersion(resourceId, version): the ids of the
\* resource versions it may return, 0 for null
getPreviousVersion(resourceId, version) ==
    {previousIn(versions, version) : versions \in findMany(resourceId)}

\* lines 501-503, 520-522: blockService.getBlockVersionsByResourceVersions(id):
\* the block versions connected to the resource version when it was created
getBlockVersionsByResourceVersions(id) == resourceVersions[id].blockVersions

(* ------------------------------------------------------------------ *)
(* Calls                                                                *)
(* ------------------------------------------------------------------ *)

\* client c starts a call
Starts(c) == calls[c].op = "idle" /\ ncalls < MaxCalls

\* client c is suspended at await `pc` of method `op`
At(c, op, pc) == calls[c].op = op /\ calls[c].pc = pc

\* lines 343-346 and 396-403: create(args) up to validateVersion's first
\* await: the two checks of the version string
CallCreate(c, resourceId, version) ==
    /\ Starts(c)
    /\ Len(resourceVersions) + Cardinality(InFlight("create")) < MaxResourceVersions
    /\ calls' = [calls EXCEPT ![c] =
          IF version = ""
          THEN [Idle EXCEPT !.op = "create", !.pc = "failed",
                            !.resourceId = resourceId, !.version = version,
                            !.error = "Version is required"]
          ELSE IF ~valid(version)
          THEN [Idle EXCEPT !.op = "create", !.pc = "failed",
                            !.resourceId = resourceId, !.version = version,
                            !.error = "not a valid semver version"]
          ELSE [Idle EXCEPT !.op = "create", !.pc = "validateVersion",
                            !.resourceId = resourceId, !.version = version]]
    /\ ncalls' = ncalls + 1
    /\ UNCHANGED <<resourceVersions, now>>

\* lines 405-416: validateVersion's findFirst resolves
CreateValidateVersion(c) ==
    /\ At(c, "create", "validateVersion")
    /\ \E existingVersion \in findFirst(calls[c].resourceId, calls[c].version) :
          calls' = [calls EXCEPT ![c] =
             IF existingVersion # 0
             THEN [@ EXCEPT !.pc = "failed", !.error = "already exists"]
             ELSE [@ EXCEPT !.pc = "findOne"]]
    /\ UNCHANGED <<resourceVersions, ncalls, now>>

\* lines 348-357: resourceService.findOne resolves; create returns undefined
\* for a resource that is no service template
CreateFindOne(c) ==
    /\ At(c, "create", "findOne")
    /\ calls' = [calls EXCEPT ![c] =
          IF resourceType(calls[c].resourceId) # "ServiceTemplate"
          THEN [@ EXCEPT !.pc = "done", !.returned = 0]
          ELSE [@ EXCEPT !.pc = "entityService.getLatestVersions"]]
    /\ UNCHANGED <<resourceVersions, ncalls, now>>

\* lines 359-361: entityService.getLatestVersions resolves (the entity
\* versions go to the row's entityVersions relation only)
CreateGetLatestEntityVersions(c) ==
    /\ At(c, "create", "entityService.getLatestVersions")
    /\ calls' = [calls EXCEPT ![c] =
          [@ EXCEPT !.pc = "blockService.getLatestVersions"]]
    /\ UNCHANGED <<resourceVersions, ncalls, now>>

\* lines 363-365: blockService.getLatestVersions resolves
CreateGetLatestBlockVersions(c) ==
    /\ At(c, "create", "blockService.getLatestVersions")
    /\ \E latestBlockVersions \in LatestBlockVersionsInputs :
          calls' = [calls EXCEPT ![c] =
             [@ EXCEPT !.pc = "getLatest",
                       !.latestBlockVersions = latestBlockVersions]]
    /\ UNCHANGED <<resourceVersions, ncalls, now>>

\* line 373: new Date(): the millisecond of the last reading or a later one
newDate == IF now = 0 THEN {1} ELSE {now, now + 1}

\* lines 367-385: getLatest resolves and the call issues the insert: the
\* arguments of prisma.resourceVersion.create, createdAt: new Date() among
\* them, are evaluated here, before the insert is awaited
CreateGetLatest(c) ==
    /\ At(c, "create", "getLatest")
    /\ \E previousVersion \in getLatest(calls[c].resourceId), createdAt \in newDate :
          /\ calls' = [calls EXCEPT ![c] =
                [@ EXCEPT !.pc = "create",
                          !.previousVersion = previousVersion,
                          !.createdAt = createdAt]]
          /\ now' = createdAt
    /\ UNCHANGED <<resourceVersions, ncalls>>

\* lines 369-385: the row prisma.resourceVersion.create inserts
newResourceVersion(c) ==
    [id |-> Len(resourceVersions) + 1,
     resourceId |-> calls[c].resourceId,
     version |-> calls[c].version,
     createdAt |-> calls[c].createdAt,
     blockVersions |-> calls[c].latestBlockVersions]

\* lines 369-385: prisma.resourceVersion.create resolves
CreateInsert(c) ==
    /\ At(c, "create", "create")
    /\ resourceVersions' = Append(resourceVersions, newResourceVersion(c))
    /\ calls' = [calls EXCEPT ![c] =
          [@ EXCEPT !.pc = "triggerAlerts", !.returned = Len(resourceVersions) + 1]]
    /\ UNCHANGED <<ncalls, now>>

\* lines 387-393: triggerAlertsForTemplateVersion resolves, create returns
CreateReturn(c) ==
    /\ At(c, "create", "triggerAlerts")
    /\ calls' = [calls EXCEPT ![c] = [@ EXCEPT !.pc = "done"]]
    /\ UNCHANGED <<resourceVersions, ncalls, now>>

\* lines 446-457: getPreviousVersion(resourceId, version) up to its await
CallGetPreviousVersion(c, resourceId, version) ==
    /\ Starts(c)
    /\ calls' = [calls EXCEPT ![c] =
          [Idle EXCEPT !.op = "getPreviousVersion", !.pc = "findMany",
                       !.resourceId = resourceId, !.version = version]]
    /\ ncalls' = ncalls + 1
    /\ UNCHANGED <<resourceVersions, now>>

\* lines 450-473: findMany resolves and getPreviousVersion returns
GetPreviousVersionReturn(c) ==
    /\ At(c, "getPreviousVersion", "findMany")
    /\ \E returned \in getPreviousVersion(calls[c].resourceId, calls[c].version) :
          calls' = [calls EXCEPT ![c] =
             [@ EXCEPT !.pc = "done", !.returned = returned]]
    /\ UNCHANGED <<resourceVersions, ncalls, now>>

\* lines 476-498: compareResourceVersions(args) up to its first await;
\* sourceVersion "" is a sourceVersion that was not provided
CallCompareResourceVersions(c, resourceId, sourceVersion, targetVersion) ==
    /\ Starts(c)
    /\ calls' = [calls EXCEPT ![c] =
          [Idle EXCEPT !.op = "compareResourceVersions", !.pc = "source",
                       !.resourceId = resourceId, !.version = targetVersion,
                       !.sourceVersion = sourceVersion]]
    /\ ncalls' = ncalls + 1
    /\ UNCHANGED <<resourceVersions, now>>

\* CompareFindSource with a missing source treated like a missing target:
\* the call throws
CompareFindSourceStrict(c) ==
    /\ At(c, "compareResourceVersions", "source")
    /\ \E sourceResourceVersion \in
             IF calls[c].sourceVersion # ""
             THEN findFirst(calls[c].resourceId, calls[c].sourceVersion)
             ELSE getPreviousVersion(calls[c].resourceId, calls[c].version) :
          calls' = [calls EXCEPT ![c] =
             IF sourceResourceVersion # 0
             THEN [@ EXCEPT !.pc = "sourceBlockVersions",
                            !.sourceResourceVersion = sourceResourceVersion]
             ELSE [@ EXCEPT !.pc = "failed", !.error = "not found"]]
    /\ UNCHANGED <<resourceVersions, ncalls, now>>

\* lines 486-504: the source resource version is looked up by findFirst, or
\* by getPreviousVersion when no sourceVersion was given; with no source
\* resource version the source block versions are []
CompareFindSource(c) ==
    /\ At(c, "compareResourceVersions", "source")
    /\ \E sourceResourceVersion \in
             IF calls[c].sourceVersion # ""
             THEN findFirst(calls[c].resourceId, calls[c].sourceVersion)
             ELSE getPreviousVersion(calls[c].resourceId, calls[c].version) :
          calls' = [calls EXCEPT ![c] =
             IF sourceResourceVersion # 0
             THEN [@ EXCEPT !.pc = "sourceBlockVersions",
                            !.sourceResourceVersion = sourceResourceVersion]
             ELSE [@ EXCEPT !.pc = "target", !.sourceBlockVersions = <<>>]]
    /\ UNCHANGED <<resourceVersions, ncalls, now>>

\* lines 500-503: getBlockVersionsByResourceVersions(sourceResourceVersion.id)
CompareGetSourceBlockVersions(c) ==
    /\ At(c, "compareResourceVersions", "sourceBlockVersions")
    /\ calls' = [calls EXCEPT ![c] =
          [@ EXCEPT !.pc = "target",
                    !.sourceBlockVersions =
                        getBlockVersionsByResourceVersions(
                            calls[c].sourceResourceVersion)]]
    /\ UNCHANGED <<resourceVersions, ncalls, now>>

\* CompareFindTarget with a missing target treated like a missing source: no
\* error, an empty target collection
CompareFindTargetLenient(c) ==
    /\ At(c, "compareResourceVersions", "target")
    /\ \E targetResourceVersion \in findFirst(calls[c].resourceId, calls[c].version) :
          calls' = [calls EXCEPT ![c] =
             IF targetResourceVersion = 0
             THEN [@ EXCEPT !.pc = "diff", !.targetBlockVersions = <<>>]
             ELSE [@ EXCEPT !.pc = "targetBlockVersions",
                            !.targetResourceVersion = targetResourceVersion]]
    /\ UNCHANGED <<resourceVersions, ncalls, now>>

\* lines 506-517: the target resource version is looked up; the call throws
\* when there is none
CompareFindTarget(c) ==
    /\ At(c, "compareResourceVersions", "target")
    /\ \E targetResourceVersion \in findFirst(calls[c].resourceId, calls[c].version) :
          calls' = [calls EXCEPT ![c] =
             IF targetResourceVersion = 0
             THEN [@ EXCEPT !.pc = "failed", !.error = "not found"]
             ELSE [@ EXCEPT !.pc = "targetBlockVersions",
                            !.targetResourceVersion = targetResourceVersion]]
    /\ UNCHANGED <<resourceVersions, ncalls, now>>

\* lines 519-522: getBlockVersionsByResourceVersions(targetResourceVersion.id)
\* resolves
CompareGetTargetBlockVersions(c) ==
    /\ At(c, "compareResourceVersions", "targetBlockVersions")
    /\ calls' = [calls EXCEPT ![c] =
          [@ EXCEPT !.pc = "diff",
                    !.targetBlockVersions =
                        getBlockVersionsByResourceVersions(
                            calls[c].targetResourceVersion)]]
    /\ UNCHANGED <<resourceVersions, ncalls, now>>

\* CompareDiff with the source array taken apart while it is walked
CompareDiffConsuming(c) ==
    /\ At(c, "compareResourceVersions", "diff")
    /\ calls' = [calls EXCEPT ![c] =
          [@ EXCEPT !.pc = "done",
                    !.sourceBlockVersions = <<>>,
                    !.diff = diffFrom(newArrays, calls[c].sourceBlockVersions,
                                      calls[c].targetBlockVersions)]]
    /\ UNCHANGED <<resourceVersions, ncalls, now>>

\* the arrays a call would start from were updated, deleted and created
\* fields of the service: what the last call that returned left in them
sharedArrays(c) ==
    LET others == {d \in Callers \ {c} :
                      At(d, "compareResourceVersions", "done")}
    IN  IF others = {} THEN newArrays
        ELSE LET d == CHOOSE d \in others : TRUE
             IN  [updated |-> calls[d].diff.updatedBlocks,
                  deleted |-> calls[d].diff.deletedBlocks,
                  created |-> calls[d].diff.createdBlocks]

\* CompareDiff over arrays shared by all calls
CompareDiffSharedArrays(c) ==
    /\ At(c, "compareResourceVersions", "diff")
    /\ calls' = [calls EXCEPT ![c] =
          [@ EXCEPT !.pc = "done",
                    !.diff = diffFrom(sharedArrays(c), calls[c].sourceBlockVersions,
                                      calls[c].targetBlockVersions)]]
    /\ UNCHANGED <<resourceVersions, ncalls, now>>

\* lines 524-561: the continuation after the last await: the diff of the two
\* collections the call holds, returned as ResourceVersionsDiff
CompareDiff(c) ==
    /\ At(c, "compareResourceVersions", "diff")
    /\ calls' = [calls EXCEPT ![c] =
          [@ EXCEPT !.pc = "done",
                    !.diff = diffFrom(newArrays, calls[c].sourceBlockVersions,
                                      calls[c].targetBlockVersions)]]
    /\ UNCHANGED <<resourceVersions, ncalls, now>>

\* the client takes the result or the error of its call
Return(c) ==
    /\ calls[c].pc \in {"done", "failed"}
    /\ calls' = [calls EXCEPT ![c] = Idle]
    /\ UNCHANGED <<resourceVersions, ncalls, now>>

(* ------------------------------------------------------------------ *)
(* The service under concurrent clients                                 *)
(* ------------------------------------------------------------------ *)

Init ==
    /\ resourceVersions = <<>>
    /\ calls = [c \in Callers |-> Idle]
    /\ ncalls = 0
    /\ now = 0

\* The clients query the versions of template r1 and create versions with
\* every version string for it; the other template and the resource that is
\* no template get versions "1.2.0", which puts rows of another resource
\* with a version string of r1 into the table and takes the return of
\* line 356.  (The two templates differ in nothing else.)
Next ==
    \E c \in Callers :
       \/ \E v \in CallVersions \cup InvalidVersions : CallCreate(c, "r1", v)
       \/ \E r \in ResourceIds \ {"r1"} : CallCreate(c, r, "1.2.0")
       \/ CreateValidateVersion(c)
       \/ CreateFindOne(c)
       \/ CreateGetLatestEntityVersions(c)
       \/ CreateGetLatestBlockVersions(c)
       \/ CreateGetLatest(c)
       \/ CreateInsert(c)
       \/ CreateReturn(c)
       \/ \E v \in CallVersions : CallGetPreviousVersion(c, "r1", v)
       \/ GetPreviousVersionReturn(c)
       \/ \E s \in CallVersions \cup {""}, t \in CallVersions :
             CallCompareResourceVersions(c, "r1", s, t)
       \/ CompareFindSource(c)
       \/ CompareGetSourceBlockVersions(c)
       \/ CompareFindTarget(c)
       \/ CompareGetTargetBlockVersions(c)
       \/ CompareDiff(c)
       \/ Return(c)

Spec == Init /\ [][Next]_vars

(* ------------------------------------------------------------------ *)
(* The diff on its own: every pair of collections                       *)
(* ------------------------------------------------------------------ *)

\* a resource version of r1 with the given id, version and block versions,
\* created at the id-th millisecond
row(id, version, blockVersions) ==
    [id |-> id, resourceId |-> "r1", version |-> version, createdAt |-> id,
     blockVersions |-> blockVersions]

\* client c1 is past the last await of compareResourceVersions (line 522)
\* and holds any two collections of at most MaxLen block versions, the
\* block versions of the two resource versions it compares
InitDiff ==
    \E source \in BlockVersionLists(MaxLen), target \in BlockVersionLists(MaxLen) :
       /\ resourceVersions = <<row(1, "1.2.0", source), row(2, "1.10.0", target)>>
       /\ calls = [c \in Callers |->
             IF c = "c1"
             THEN [Idle EXCEPT !.op = "compareResourceVersions", !.pc = "diff",
                               !.resourceId = "r1", !.sourceVersion = "1.2.0",
                               !.version = "1.10.0",
                               !.sourceResourceVersion = 1,
                               !.targetResourceVersion = 2,
                               !.sourceBlockVersions = source,
                               !.targetBlockVersions = target]
             ELSE Idle]
       /\ ncalls = 1
       /\ now = 2

NextDiff == \E c \in Callers : CompareDiff(c)

SpecDiff == InitDiff /\ [][NextDiff]_vars

(* ------------------------------------------------------------------ *)
(* getPreviousVersion on its own: every store                           *)
(* ------------------------------------------------------------------ *)

\* the greatest createdAt of a store, 0 for the empty store: the last
\* reading of the clock
lastCreatedAt(store) ==
    IF store = <<>> THEN 0
    ELSE LET i == CHOOSE i \in 1..Len(store) :
                     \A j \in 1..Len(store) : store[j].createdAt <= store[i].createdAt
         IN  store[i].createdAt

\* the createdAt of k rows, by row id: every way the creates of the rows may
\* have read the clock, whose readings are 1, 2, ... with no gap (a later
\* row of the table may carry an earlier createdAt, and rows may share one)
CreatedAts(k) ==
    {at \in [1..k -> 1..k] :
        \A i \in 1..k : at[i] = 1 \/ \E j \in 1..k : at[j] = at[i] - 1}

\* the block versions of every resource version of a store of SpecPrev
oneBlockAt(i) == <<BlockVersion("a", 1)>>

\* the store of k resource versions in which the i-th row, of id i, belongs
\* to resource f[i][1], carries version f[i][2], createdAt at[i] and the
\* block versions blockVersions[i]
store(k, f, at, blockVersions) ==
    [i \in 1..k |->
        [id |-> i, resourceId |-> f[i][1], version |-> f[i][2],
         createdAt |-> at[i], blockVersions |-> blockVersions[i]]]

\* client c1 has called getPreviousVersion for r1 and awaits findMany
\* (line 450); the store is any store of at most MaxStored resource versions
\* of the two service templates with valid version strings, the same
\* (resourceId, version) stored twice or not
InitPrev ==
    \E k \in 0..MaxStored :
       \E f \in [1..k -> TemplateIds \X ValidVersions], at \in CreatedAts(k),
          v \in ValidVersions :
          /\ resourceVersions = store(k, f, at, [i \in 1..k |-> oneBlockAt(i)])
          /\ calls = [c \in Callers |->
                IF c = "c1"
                THEN [Idle EXCEPT !.op = "getPreviousVersion", !.pc = "findMany",
                                  !.resourceId = "r1", !.version = v]
                ELSE Idle]
          /\ ncalls = 1
          /\ now = lastCreatedAt(resourceVersions)

NextPrev == \E c \in Callers : GetPreviousVersionReturn(c)

SpecPrev == InitPrev /\ [][NextPrev]_vars

(* ------------------------------------------------------------------ *)
(* compareResourceVersions on its own: every store                      *)
(* ------------------------------------------------------------------ *)

\* the block versions of the i-th resource version of a store of
\* SpecCompare: the two collections of LatestBlockVersionsInputs in turn
blocksAt(i) ==
    IF i % 2 = 1
    THEN <<BlockVersion("a", 1), BlockVersion("b", 1)>>
    ELSE <<BlockVersion("a", 2), BlockVersion("c", 1)>>

\* the createdAt of k rows, by row id, in three histories: the inserts
\* resolved in the order in which they were issued, they resolved in the
\* opposite order, and they were all issued in one millisecond (findMany
\* may then return the rows in every order)
IssueOrders(k) ==
    { [i \in 1..k |-> i], [i \in 1..k |-> k + 1 - i], [i \in 1..k |-> 1] }

\* client c1 has called compareResourceVersions for r1, with or without a
\* sourceVersion, and awaits the lookup of its source (lines 487, 494); the
\* store is as in SpecPrev, with the createdAt of IssueOrders
InitCompare ==
    \E k \in 0..MaxStored :
       \E f \in [1..k -> TemplateIds \X ValidVersions], at \in IssueOrders(k),
          s \in ValidVersions \cup {""}, t \in ValidVersions :
          /\ resourceVersions = store(k, f, at, [i \in 1..k |-> blocksAt(i)])
          /\ calls = [c \in Callers |->
                IF c = "c1"
                THEN [Idle EXCEPT !.op = "compareResourceVersions",
                                  !.pc = "source", !.resourceId = "r1",
                                  !.version = t, !.sourceVersion = s]
                ELSE Idle]
          /\ ncalls = 1
          /\ now = lastCreatedAt(resourceVersions)

NextCompare ==
    \E c \in Callers :
       \/ CompareFindSource(c)
       \/ CompareGetSourceBlockVersions(c)
       \/ CompareFindTarget(c)
       \/ CompareGetTargetBlockVersions(c)
       \/ CompareDiff(c)

SpecCompare == InitCompare /\ [][NextCompare]_vars

(* ------------------------------------------------------------------ *)
(* Concurrent compareResourceVersions calls over a filled store         *)
(* ------------------------------------------------------------------ *)

\* the version of the i-th resource version of the store of SpecRepeat
versionAt(i) == <<"1.2.0", "1.10.0", "2.0.0", "v1.2.0">>[((i - 1) % 4) + 1]

\* the block versions of the i-th resource version of the store of
\* SpecRepeat: a resource's blocks at three moments of its history (b
\* deleted, c created and a updated from the first to the second; b created
\* again and the order changed from the second to the third)
collectionAt(i) ==
    <<  <<BlockVersion("a", 1), BlockVersion("b", 1)>>,
        <<BlockVersion("a", 2), BlockVersion("c", 1)>>,
        <<BlockVersion("c", 1), BlockVersion("b", 2), BlockVersion("a", 2)>>
    >>[((i - 1) % 3) + 1]

\* no call has started; the table holds MaxStored resource versions of r1,
\* with the createdAt of IssueOrders
InitRepeat ==
    \E at \in IssueOrders(MaxStored) :
       /\ resourceVersions =
             store(MaxStored, [i \in 1..MaxStored |-> <<"r1", versionAt(i)>>], at,
                   [i \in 1..MaxStored |-> collectionAt(i)])
       /\ calls = [c \in Callers |-> Idle]
       /\ ncalls = 0
       /\ now = lastCreatedAt(resourceVersions)

\* the two clients call compareResourceVersions for r1, with every source
\* and target version, stored or not, at most MaxCalls times in all; their
\* calls interleave at every await
NextRepeat ==
    \E c \in Callers :
       \/ \E s \in ValidVersions \cup {""}, t \in ValidVersions :
             CallCompareResourceVersions(c, "r1", s, t)
       \/ CompareFindSource(c)
       \/ CompareGetSourceBlockVersions(c)
       \/ CompareFindTarget(c)
       \/ CompareGetTargetBlockVersions(c)
       \/ CompareDiff(c)
       \/ Return(c)

SpecRepeat == InitRepeat /\ [][NextRepeat]_vars

(* ------------------------------------------------------------------ *)
(* Properties of the diff (checked under SpecDiff)                      *)
(* ------------------------------------------------------------------ *)

\* client c holds the ResourceVersionsDiff its compareResourceVersions returned
DoneCompare(c) == At(c, "compareResourceVersions", "done")

\* the items of a collection
Items(list) == {list[i] : i \in 1..Len(list)}

\* the block ids of a collection
IdsOf(list) == {list[i].block.id : i \in 1..Len(list)}

\* the items of `list` whose block id no item of `other` carries, in the
\* order of `list`
AbsentFrom(list, other) ==
    LET Absent(x) == x.block.id \notin IdsOf(other)
    IN  SelectSeq(list, Absent)

\* the items of `source` for which `target` has an item of the same block id
\* and another version number, in the order of `source`
ChangedIn(source, target) ==
    LET Changed(s) == \E t \in Items(target) :
                         t.block.id = s.block.id /\ t.versionNumber # s.versionNumber
    IN  SelectSeq(source, Changed)

\* how many positions of `list` satisfy the test
Count(list, Test(_)) == Cardinality({k \in 1..Len(list) : Test(list[k])})

\* C1: with unique block ids on each side, createdBlocks is exactly the
\* subsequence of the target collection made of the items whose block id no
\* source item carries, in target order.
C1_CreatedIsTargetMinusSource ==
    \A c \in Callers :
       (/\ DoneCompare(c)
        /\ UniqueBlockIds(calls[c].sourceBlockVersions)
        /\ UniqueBlockIds(calls[c].targetBlockVersions))
       => calls[c].diff.createdBlocks =
             AbsentFrom(calls[c].targetBlockVersions, calls[c].sourceBlockVersions)

\* a diff that created two items, which are the whole target
C1_Witness ==
    \E c \in Callers :
       /\ DoneCompare(c)
       /\ calls[c].sourceBlockVersions = <<BlockVersion("a", 1)>>
       /\ calls[c].targetBlockVersions = <<BlockVersion("c", 1), BlockVersion("b", 2)>>
       /\ calls[c].diff.createdBlocks = <<BlockVersion("c", 1), BlockVersion("b", 2)>>

\* C2: with unique block ids on each side, deletedBlocks is exactly the
\* subsequence of the source collection made of the items whose block id no
\* target item carries, in source order.
C2_DeletedIsSourceMinusTarget ==
    \A c \in Callers :
       (/\ DoneCompare(c)
        /\ UniqueBlockIds(calls[c].sourceBlockVersions)
        /\ UniqueBlockIds(calls[c].targetBlockVersions))
       => calls[c].diff.deletedBlocks =
             AbsentFrom(calls[c].sourceBlockVersions, calls[c].targetBlockVersions)

\* a diff that deleted one of two source items and kept the other's block
C2_Witness ==
    \E c \in Callers :
       /\ DoneCompare(c)
       /\ calls[c].sourceBlockVersions = <<BlockVersion("b", 2), BlockVersion("a", 1)>>
       /\ calls[c].targetBlockVersions = <<BlockVersion("a", 2)>>
       /\ calls[c].diff.deletedBlocks = <<BlockVersion("b", 2)>>

\* C3: with unique block ids on each side, updatedBlocks is, in source order,
\* one pair for every source item whose block the target holds under another
\* version number: the source item and that target item; no other pair.
C3_UpdatedIsChangedPairs ==
    \A c \in Callers :
       (/\ DoneCompare(c)
        /\ UniqueBlockIds(calls[c].sourceBlockVersions)
        /\ UniqueBlockIds(calls[c].targetBlockVersions))
       => LET updated == calls[c].diff.updatedBlocks
              changed == ChangedIn(calls[c].sourceBlockVersions,
                                   calls[c].targetBlockVersions)
          IN  /\ Len(updated) = Len(changed)
              /\ \A k \in 1..Len(updated) :
                    /\ updated[k].sourceBlockVersion = changed[k]
                    /\ updated[k].targetBlockVersion \in Items(calls[c].targetBlockVersions)
                    /\ updated[k].targetBlockVersion.block.id = changed[k].block.id
                    /\ updated[k].targetBlockVersion.versionNumber
                          # changed[k].versionNumber

\* the scenario of the specification: a updated, b deleted, c created
C3_Witness ==
    \E c \in Callers :
       /\ DoneCompare(c)
       /\ calls[c].sourceBlockVersions = <<BlockVersion("a", 1), BlockVersion("b", 1)>>
       /\ calls[c].targetBlockVersions = <<BlockVersion("a", 2), BlockVersion("c", 1)>>
       /\ calls[c].diff =
             [updatedBlocks |-> <<[sourceBlockVersion |-> BlockVersion("a", 1),
                                   targetBlockVersion |-> BlockVersion("a", 2)]>>,
              createdBlocks |-> <<BlockVersion("c", 1)>>,
              deletedBlocks |-> <<BlockVersion("b", 1)>>]

\* exactly one of three
ExactlyOne(A, B, C) == (A /\ ~B /\ ~C) \/ (~A /\ B /\ ~C) \/ (~A /\ ~B /\ C)

\* C4: with unique block ids on each side, every source item is in exactly
\* one of: deletedBlocks (once), the source half of one updated pair,
\* unchanged and in no output; every target item is in exactly one of:
\* createdBlocks (once), the target half of one updated pair, unchanged and
\* in no output; and no block id occurs in two of created, updated, deleted.
C4_Partition ==
    \A c \in Callers :
       (/\ DoneCompare(c)
        /\ UniqueBlockIds(calls[c].sourceBlockVersions)
        /\ UniqueBlockIds(calls[c].targetBlockVersions))
       => LET source == calls[c].sourceBlockVersions
              target == calls[c].targetBlockVersions
              d == calls[c].diff
              updatedIds == {d.updatedBlocks[k].sourceBlockVersion.block.id :
                                k \in 1..Len(d.updatedBlocks)}
                            \cup
                            {d.updatedBlocks[k].targetBlockVersion.block.id :
                                k \in 1..Len(d.updatedBlocks)}
          IN  /\ \A s \in Items(source) :
                    LET IsS(x) == x = s
                        HasS(pair) == pair.sourceBlockVersion = s
                        nDeleted == Count(d.deletedBlocks, IsS)
                        nUpdated == Count(d.updatedBlocks, HasS)
                    IN  /\ nDeleted <= 1 /\ nUpdated <= 1
                        /\ ExactlyOne(nDeleted = 1, nUpdated = 1,
                                      s \in Items(target) /\ nDeleted + nUpdated = 0)
              /\ \A t \in Items(target) :
                    LET IsT(x) == x = t
                        HasT(pair) == pair.targetBlockVersion = t
                        nCreated == Count(d.createdBlocks, IsT)
                        nUpdated == Count(d.updatedBlocks, HasT)
                    IN  /\ nCreated <= 1 /\ nUpdated <= 1
                        /\ ExactlyOne(nCreated = 1, nUpdated = 1,
                                      t \in Items(source) /\ nCreated + nUpdated = 0)
              /\ IdsOf(d.createdBlocks) \cap updatedIds = {}
              /\ IdsOf(d.deletedBlocks) \cap updatedIds = {}
              /\ IdsOf(d.createdBlocks) \cap IdsOf(d.deletedBlocks) = {}

\* a diff with an unchanged block, an updated block and nothing else
C4_Witness ==
    \E c \in Callers :
       /\ DoneCompare(c)
       /\ calls[c].sourceBlockVersions = <<BlockVersion("a", 1), BlockVersion("b", 1)>>
       /\ calls[c].targetBlockVersions = <<BlockVersion("b", 2), BlockVersion("a", 1)>>
       /\ Len(calls[c].diff.updatedBlocks) = 1
       /\ calls[c].diff.createdBlocks = <<>>
       /\ calls[c].diff.deletedBlocks = <<>>

\* in the diff client c holds, an item that source and target both hold
\* (same block id, same version number) is in no output, and two collections
\* of the same items give three empty outputs
UnchangedInNoOutput(c) ==
    LET source == calls[c].sourceBlockVersions
        target == calls[c].targetBlockVersions
        d == calls[c].diff
    IN  /\ \A x \in Items(source) \cap Items(target) :
              /\ x \notin Items(d.createdBlocks)
              /\ x \notin Items(d.deletedBlocks)
              /\ \A k \in 1..Len(d.updatedBlocks) :
                    /\ d.updatedBlocks[k].sourceBlockVersion # x
                    /\ d.updatedBlocks[k].targetBlockVersion # x
        /\ Items(source) = Items(target) => d = NoDiff

\* C5: for collections of the data model (unique block ids on each side), an
\* item with the same block id and version number in source and target is
\* in none of created, updated, deleted, and two collections holding the
\* same ids with the same version numbers (diff(X, X) among them) give three
\* empty outputs.  (Outside the data model the second item of
\* X = <<a v1, a v2>> is paired with the first one found.)
C5_UnchangedInNoOutput ==
    \A c \in Callers :
       (/\ DoneCompare(c)
        /\ UniqueBlockIds(calls[c].sourceBlockVersions)
        /\ UniqueBlockIds(calls[c].targetBlockVersions))
       => UnchangedInNoOutput(c)

\* diff(X, X) for a collection of two blocks, returned empty
C5_Witness ==
    \E c \in Callers :
       /\ DoneCompare(c)
       /\ calls[c].sourceBlockVersions = <<BlockVersion("a", 2), BlockVersion("b", 1)>>
       /\ calls[c].targetBlockVersions = calls[c].sourceBlockVersions
       /\ calls[c].diff = NoDiff

\* C6: diff([], Y) returns created = Y with updated and deleted empty, and
\* diff(X, []) returns deleted = X with created and updated empty.
C6_EmptySide ==
    \A c \in Callers :
       DoneCompare(c) =>
          /\ calls[c].sourceBlockVersions = <<>> =>
                calls[c].diff = [updatedBlocks |-> <<>>,
                                 createdBlocks |-> calls[c].targetBlockVersions,
                                 deletedBlocks |-> <<>>]
          /\ calls[c].targetBlockVersions = <<>> =>
                calls[c].diff = [updatedBlocks |-> <<>>,
                                 createdBlocks |-> <<>>,
                                 deletedBlocks |-> calls[c].sourceBlockVersions]

\* a diff of an empty source against two target items
C6_Witness ==
    \E c \in Callers :
       /\ DoneCompare(c)
       /\ calls[c].sourceBlockVersions = <<>>
       /\ calls[c].targetBlockVersions = <<BlockVersion("b", 1), BlockVersion("a", 2)>>
       /\ calls[c].diff.createdBlocks = calls[c].targetBlockVersions

(* ------------------------------------------------------------------ *)
(* Properties of compareResourceVersions among concurrent calls and     *)
(* creates (checked under Spec)                                         *)
(* ------------------------------------------------------------------ *)

\* this step is a step of client c's compareResourceVersions call: its
\* start, one of its continuations
CompareStep(c) ==
    /\ calls'[c] # calls[c]
    /\ calls'[c].op = "compareResourceVersions"

\* C7: a call of compareResourceVersions only reads: none of its steps
\* changes the stored resource versions or their block versions, and once
\* the call holds a collection (the source from the target lookup on, the
\* target from the diff on) the collection stays as it is, items and order.
C7_CompareOnlyReads ==
    [][\A c \in Callers :
          CompareStep(c) =>
             /\ resourceVersions' = resourceVersions
             /\ calls[c].pc \in {"target", "targetBlockVersions", "diff"} =>
                   calls'[c].sourceBlockVersions = calls[c].sourceBlockVersions
             /\ calls[c].pc = "diff" =>
                   calls'[c].targetBlockVersions = calls[c].targetBlockVersions]_vars

\* a call has returned a diff of two stored, non-empty collections, which
\* are still what the call read and what the store holds
C7_Witness ==
    \E c \in Callers :
       /\ DoneCompare(c)
       /\ calls[c].sourceResourceVersion # 0
       /\ calls[c].sourceBlockVersions # <<>>
       /\ calls[c].sourceBlockVersions =
             resourceVersions[calls[c].sourceResourceVersion].blockVersions
       /\ calls[c].targetBlockVersions =
             resourceVersions[calls[c].targetResourceVersion].blockVersions
       /\ calls[c].diff.updatedBlocks # <<>>

\* the rows of the resource that carry the version
rowsOf(resourceId, version) ==
    {i \in 1..Len(resourceVersions) :
        /\ resourceVersions[i].resourceId = resourceId
        /\ resourceVersions[i].version = version}

\* C10: compareResourceVersions returns a diff only when a resource version
\* with the target version exists for the resource: while none exists the
\* call is before its target lookup or has failed with the not-found error,
\* and holds no diff, whatever its source was; a returned diff is the diff
\* against a stored resource version of that resource and version.
C10_NoTargetNoDiff ==
    \A c \in Callers :
       calls[c].op = "compareResourceVersions" =>
          /\ rowsOf(calls[c].resourceId, calls[c].version) = {} =>
                /\ calls[c].pc \in {"source", "sourceBlockVersions", "target", "failed"}
                /\ calls[c].diff = NoDiff
          /\ calls[c].pc = "failed" =>
                calls[c].error = "not found" /\ calls[c].diff = NoDiff
          /\ calls[c].pc = "done" =>
                calls[c].targetResourceVersion
                   \in rowsOf(calls[c].resourceId, calls[c].version)

\* a call whose source version was given and found has failed because the
\* target version is not stored
C10_Witness ==
    \E c \in Callers :
       /\ At(c, "compareResourceVersions", "failed")
       /\ calls[c].sourceVersion # ""
       /\ calls[c].sourceResourceVersion # 0
       /\ calls[c].sourceBlockVersions # <<>>
       /\ rowsOf(calls[c].resourceId, calls[c].version) = {}
       /\ calls[c].error = "not found"

(* ------------------------------------------------------------------ *)
(* Properties of getPreviousVersion (checked under SpecPrev)            *)
(* ------------------------------------------------------------------ *)

\* client c holds what its getPreviousVersion returned
DonePrevious(c) == At(c, "getPreviousVersion", "done")

\* the version strings stored for the resource
storedVersions(resourceId) ==
    {resourceVersions[i].version :
        i \in {j \in 1..Len(resourceVersions) :
                  resourceVersions[j].resourceId = resourceId}}

\* C9: getPreviousVersion returns null, with no error, both when the version
\* is not among the resource's versions and when it is stored and lower in
\* semver order than every other stored version of the resource; when a
\* lower version is stored it returns a resource version of the resource
\* whose version string comes just before: another string, not greater, with
\* no stored version strictly between the two.
C9_PreviousVersion ==
    \A c \in Callers :
       DonePrevious(c) =>
          LET v == calls[c].version
              stored == storedVersions(calls[c].resourceId)
              p == calls[c].returned
          IN  /\ calls[c].error = ""
              /\ v \notin stored => p = 0
              /\ (v \in stored /\ \A w \in stored \ {v} : compare(v, w) < 0) => p = 0
              /\ (v \in stored /\ \E w \in stored : compare(w, v) < 0) => p # 0
              /\ p # 0 =>
                    /\ p \in 1..Len(resourceVersions)
                    /\ resourceVersions[p].resourceId = calls[c].resourceId
                    /\ resourceVersions[p].version # v
                    /\ compare(resourceVersions[p].version, v) <= 0
                    /\ ~ \E w \in stored :
                            /\ compare(resourceVersions[p].version, w) < 0
                            /\ compare(w, v) < 0

\* with 1.10.0, 2.0.0 and 1.2.0 stored in this order, the previous version
\* of 2.0.0 is the row of 1.10.0
C9_Witness ==
    \E c \in Callers :
       /\ DonePrevious(c)
       /\ calls[c].version = "2.0.0"
       /\ Len(resourceVersions) = 3
       /\ \A i \in 1..3 : resourceVersions[i].resourceId = calls[c].resourceId
       /\ versionsOf(resourceVersions) = <<"1.10.0", "2.0.0", "1.2.0">>
       /\ calls[c].returned = 1

(* ------------------------------------------------------------------ *)
(* The source of compareResourceVersions (checked under SpecCompare)    *)
(* ------------------------------------------------------------------ *)

\* client c's compareResourceVersions call takes the step after await `pc`
CompareStepAt(c, pc) ==
    At(c, "compareResourceVersions", pc) /\ calls'[c] # calls[c]

\* row p is a resource version of the resource whose version string comes
\* just before `version`: another string, not greater in semver order, with
\* no stored version of the resource strictly between the two
ImmediatePredecessor(p, resourceId, version) ==
    /\ p \in 1..Len(resourceVersions)
    /\ resourceVersions[p].resourceId = resourceId
    /\ resourceVersions[p].version # version
    /\ compare(resourceVersions[p].version, version) <= 0
    /\ ~ \E w \in storedVersions(resourceId) :
            /\ compare(resourceVersions[p].version, w) < 0
            /\ compare(w, version) < 0

\* C11: the lookup of the source never makes the call throw.  A sourceVersion
\* that is given and not stored, or an omitted sourceVersion whose target
\* version has no stored lower version (or is itself not stored), leaves
\* the call with no source resource version and an empty source collection,
\* and the diff such a call returns is createdBlocks = the block versions of
\* the target in their order, updatedBlocks and deletedBlocks empty.  An
\* omitted sourceVersion whose target is stored together with a lower
\* version makes the source the immediate semver predecessor of the target;
\* a given and stored sourceVersion makes it a row of that version.
C11_MissingSourceIsEmpty ==
    [][\A c \in Callers :
          /\ CompareStepAt(c, "source") =>
                LET r == calls[c].resourceId
                    s == calls[c].sourceVersion
                    t == calls[c].version
                    stored == storedVersions(r)
                    lower == t \in stored /\ \E w \in stored : compare(w, t) < 0
                    lowest == t \in stored
                              /\ \A w \in stored \ {t} : compare(t, w) < 0
                    p == calls'[c].sourceResourceVersion
                    empty == /\ p = 0
                             /\ calls'[c].pc = "target"
                             /\ calls'[c].sourceBlockVersions = <<>>
                IN  /\ calls'[c].pc # "failed"
                    /\ calls'[c].error = ""
                    /\ p = 0 => empty
                    /\ (s # "" /\ rowsOf(r, s) = {}) => empty
                    /\ (s = "" /\ (t \notin stored \/ lowest)) => empty
                    /\ (s # "" /\ rowsOf(r, s) # {}) => p \in rowsOf(r, s)
                    /\ (s = "" /\ lower) => ImmediatePredecessor(p, r, t)
                    /\ (s = "" /\ p # 0) => ImmediatePredecessor(p, r, t)
          /\ (CompareStepAt(c, "diff") /\ calls[c].sourceResourceVersion = 0) =>
                /\ calls'[c].pc = "done"
                /\ calls'[c].error = ""
                /\ calls[c].targetBlockVersions =
                      resourceVersions[calls[c].targetResourceVersion].blockVersions
                /\ calls'[c].diff =
                      [updatedBlocks |-> <<>>,
                       createdBlocks |-> calls[c].targetBlockVersions,
                       deletedBlocks |-> <<>>]]_vars

\* a call whose sourceVersion was given and is not stored, while lower
\* versions of the target are, has returned the two block versions of its
\* target as created
C11_Witness ==
    \E c \in Callers :
       /\ DoneCompare(c)
       /\ calls[c].sourceVersion = "2.0.0"
       /\ rowsOf(calls[c].resourceId, "2.0.0") = {}
       /\ calls[c].version = "1.10.0"
       /\ "1.2.0" \in storedVersions(calls[c].resourceId)
       /\ calls[c].sourceResourceVersion = 0
       /\ Len(calls[c].targetBlockVersions) = 2
       /\ calls[c].diff = [updatedBlocks |-> <<>>,
                           createdBlocks |-> calls[c].targetBlockVersions,
                           deletedBlocks |-> <<>>]

(* ------------------------------------------------------------------ *)
(* Repeated and interleaved diffs (checked under SpecRepeat)            *)
(* ------------------------------------------------------------------ *)

\* the first position of `list` that carries the block id, 0 when none does
firstOfBlock(list, id) ==
    LET hits == {j \in 1..Len(list) : list[j].block.id = id}
    IN  IF hits = {} THEN 0 ELSE MinIndex(hits)

\* the ResourceVersionsDiff of two collections, stated from the collections
\* alone: created and deleted are the items whose block the other side does
\* not hold, each in its own order; updated has, in source order, one pair
\* for every source item whose block the target holds, first under another
\* version number: that source item and that target item
expectedDiff(source, target) ==
    LET Changed(s) ==
            /\ firstOfBlock(target, s.block.id) # 0
            /\ target[firstOfBlock(target, s.block.id)].versionNumber
                  # s.versionNumber
        changed == SelectSeq(source, Changed)
    IN  [updatedBlocks |->
            [k \in 1..Len(changed) |->
                [sourceBlockVersion |-> changed[k],
                 targetBlockVersion |->
                     target[firstOfBlock(target, changed[k].block.id)]]],
         createdBlocks |-> AbsentFrom(target, source),
         deletedBlocks |-> AbsentFrom(source, target)]

\* the clients that hold results of calls over the same two collections
\* hold the same result
sameInputsSameDiff ==
    \A c1, c2 \in Callers :
       (/\ DoneCompare(c1)
        /\ DoneCompare(c2)
        /\ calls[c1].sourceBlockVersions = calls[c2].sourceBlockVersions
        /\ calls[c1].targetBlockVersions = calls[c2].targetBlockVersions)
       => calls[c1].diff = calls[c2].diff

\* C8: the result of a diff is fixed by its source and target collections
\* alone, whatever calls ran before it or run interleaved with it: the diff
\* step of a call returns expectedDiff of the two collections the call
\* holds, it leaves every other client's call, in flight or returned with
\* its result, as it was, and the table too; so two runs over the same
\* collections end with the same createdBlocks, updatedBlocks and
\* deletedBlocks, element for element.
C8_SameInputsSameDiff ==
    [][/\ \A c \in Callers :
             CompareStepAt(c, "diff") =>
                /\ calls'[c].pc = "done"
                /\ calls'[c].diff = expectedDiff(calls[c].sourceBlockVersions,
                                                 calls[c].targetBlockVersions)
                /\ calls'[c].sourceBlockVersions = calls[c].sourceBlockVersions
                /\ calls'[c].targetBlockVersions = calls[c].targetBlockVersions
                /\ \A d \in Callers \ {c} : calls'[d] = calls[d]
                /\ resourceVersions' = resourceVersions
       /\ sameInputsSameDiff']_vars

\* three calls were made and the two clients hold the results of two of
\* them, over the same two collections: one block updated, one deleted and
\* one created in both results
C8_Witness ==
    \E c1, c2 \in Callers :
       /\ c1 # c2
       /\ ncalls >= 3
       /\ DoneCompare(c1)
       /\ DoneCompare(c2)
       /\ calls[c1].sourceBlockVersions = calls[c2].sourceBlockVersions
       /\ calls[c1].targetBlockVersions = calls[c2].targetBlockVersions
       /\ calls[c1].diff = calls[c2].diff
       /\ calls[c1].diff.updatedBlocks # <<>>
       /\ calls[c1].diff.createdBlocks # <<>>
       /\ calls[c1].diff.deletedBlocks # <<>>

(* ------------------------------------------------------------------ *)
(* Concurrent creates (checked under Spec)                              *)
(* ------------------------------------------------------------------ *)

\* C12: after any interleaving of create calls, no resource has two stored
\* resource versions with the same version string.  Violated by two creates
\* of the same (resourceId, version) whose findFirst of line 405 both
\* resolve before either insert of line 369.
C12_NoDuplicateVersions ==
    \A i, j \in 1..Len(resourceVersions) :
       (/\ resourceVersions[i].resourceId = resourceVersions[j].resourceId
        /\ resourceVersions[i].version = resourceVersions[j].version)
       => i = j

====
